---- MODULE Spec2Model ----
(***************************************************************************)
(* The BigQuery backup cloud function (bigquery_backup/function.go, the    *)
(* revision whose log helpers are methods of backupParams, lines 409-874)  *)
(* together with the start-up check of the command (unnamed/part_000).     *)
(*                                                                         *)
(* One process serves requests one after the other.  Each step of the      *)
(* handler bigQueryBackup that blocks on a collaborator (environment,      *)
(* BigQuery, Cloud Storage, Cloud Logging) is one action; what the         *)
(* collaborator answers is drawn with \E from small sets.  Go strings are  *)
(* sequences of one-character strings, so comparison, concatenation and    *)
(* trimming are computed as the code computes them.                        *)
(***************************************************************************)
EXTENDS Naturals, Sequences, FiniteSets, TLC

\* Number of requests the process serves in a run of the model.
MaxRequests == 2

\* Number of goroutines that call setBigQueryClient at the same time.
NumCallers == 3

----------------------------------------------------------------------------
\* Constants of function.go

csvFormat == <<"C", "S", "V">>
jsonFormat == <<"J", "S", "O", "N">>
avroFormat == <<"A", "V", "R", "O">>
parquetFormat == <<"P", "A", "R", "Q", "U", "E", "T">>

gzipCompression == <<"G", "Z", "I", "P">>
snappyCompression == <<"S", "N", "A", "P", "P", "Y">>
zstdCompression == <<"Z", "S", "T", "D">>
deflateCompression == <<"D", "E", "F", "L", "A", "T", "E">>

\* The empty Go string.
Empty == <<>>

----------------------------------------------------------------------------
\* Values the environment and the callers supply

\* GCP_PROJECT: unset/empty, blank, and two project identifiers.
EnvValues == {Empty, <<" ", " ">>, <<"p", "1">>, <<"p", "2">>}

DatasetNames == {Empty, <<"d", "s">>}
TableNames == {Empty, <<"t">>}
BucketNames == {Empty, <<"b">>}

\* Requested formats: absent, the four known ones, a lower-case spelling and
\* an unknown one.
FormatValues ==
    {Empty, csvFormat, jsonFormat, avroFormat, parquetFormat,
     <<"c", "s", "v">>, <<"X", "M", "L">>}

\* Requested compressions: absent, the four known ones and an unknown one.
CompressionValues ==
    {Empty, gzipCompression, snappyCompression, zstdCompression,
     deflateCompression, <<"L", "Z", "4">>}

\* postBodyParams, as json.Decode fills it (an absent key leaves "").
PostBodies ==
    [DatasetName : DatasetNames, TableName : TableNames,
     StorageBucket : BucketNames, Format : FormatValues,
     Compression : CompressionValues]

\* Identifiers the tabular-data service may answer with.
ServiceProjects == {<<"p", "1">>, <<"p", "2">>}
ServiceDatasets == {<<"d", "s">>, <<"d", "s", "2">>}
ServiceTables == {<<"t">>, <<"t", "2">>}

\* The zero value of postBodyParams and of backupParams.
ZeroBody ==
    [DatasetName |-> Empty, TableName |-> Empty, StorageBucket |-> Empty,
     Format |-> Empty, Compression |-> Empty]

ZeroParams ==
    [projectID |-> Empty, sourceDatasetID |-> Empty, backupTableID |-> Empty,
     storageBucket |-> Empty, compressionType |-> Empty,
     destinationFormat |-> Empty]

----------------------------------------------------------------------------
\* Strings

IsSpace(c) == c \in {" ", "\t", "\n", "\r"}

RECURSIVE TrimLeft(_)
TrimLeft(s) ==
    IF s = Empty THEN Empty
    ELSE IF IsSpace(Head(s)) THEN TrimLeft(Tail(s)) ELSE s

RECURSIVE TrimRight(_)
TrimRight(s) ==
    IF s = Empty THEN Empty
    ELSE IF IsSpace(s[Len(s)]) THEN TrimRight(SubSeq(s, 1, Len(s) - 1)) ELSE s

\* strings.TrimSpace
TrimSpace(s) == TrimRight(TrimLeft(s))

UpperLetters ==
    <<"A", "B", "C", "D", "E", "F", "G", "H", "I", "J", "K", "L", "M",
      "N", "O", "P", "Q", "R", "S", "T", "U", "V", "W", "X", "Y", "Z">>
LowerLetters ==
    <<"a", "b", "c", "d", "e", "f", "g", "h", "i", "j", "k", "l", "m",
      "n", "o", "p", "q", "r", "s", "t", "u", "v", "w", "x", "y", "z">>

LowerChar(c) ==
    IF \E i \in DOMAIN UpperLetters : UpperLetters[i] = c
    THEN LowerLetters[CHOOSE i \in DOMAIN UpperLetters : UpperLetters[i] = c]
    ELSE c

\* A ToLower that leaves the string as it is.
ToLowerUnchanged(s) == s

\* strings.ToLower
ToLower(s) == [i \in DOMAIN s |-> LowerChar(s[i])]

\* Days time.Now() may fall on.
Dates ==
    {[year |-> 2024, month |-> 1, day |-> 5],
     [year |-> 2025, month |-> 12, day |-> 31],
     [year |-> 2026, month |-> 11, day |-> 4]}

DecimalDigits == <<"0", "1", "2", "3", "4", "5", "6", "7", "8", "9">>
Digit(n) == DecimalDigits[n + 1]
TwoDigits(n) == <<Digit(n \div 10), Digit(n % 10)>>
FourDigits(n) == TwoDigits(n \div 100) \o TwoDigits(n % 100)

\* time.Time.Format("2006-01-02")
FormatDate(t) ==
    FourDigits(t.year) \o <<"-">> \o TwoDigits(t.month) \o <<"-">> \o
    TwoDigits(t.day)

\* The time of a request that has not read the clock.
NoTime == [year |-> 2024, month |-> 1, day |-> 5]

----------------------------------------------------------------------------
\* Logging

Error(msg) == [severity |-> "Error", msg |-> msg]
Info(msg) == [severity |-> "Info", msg |-> msg]

\* Whether logError / logInfo hand back a non-nil error: both end in
\* "return nil" (a logging client that cannot be created is fatal instead).
logErrorErr == FALSE
logInfoErr == FALSE

----------------------------------------------------------------------------
\* Pure parts of the handler.  An error value is TRUE for non-nil.

\* A setProjectID that only tests for the empty string.
setProjectIDBlankAccepted(b, projectID) ==
    IF projectID = Empty
    THEN [bp |-> b, err |-> TRUE]
    ELSE [bp |-> [b EXCEPT !.projectID = projectID], err |-> FALSE]

\* setProjectID: the receiver after the call and the returned error.
setProjectID(b, projectID) ==
    IF projectID = Empty \/ TrimSpace(projectID) = Empty
    THEN [bp |-> b, err |-> TRUE]
    ELSE [bp |-> [b EXCEPT !.projectID = projectID], err |-> FALSE]

\* A checkPostBody that tests TableName before DatasetName.
checkPostBodyTableFirst(body) ==
    IF body.TableName = Empty
    THEN [ok |-> FALSE, err |-> logErrorErr, missing |-> "TableName",
          logs |-> <<Error("Missing TableName in Post Body")>>]
    ELSE IF body.DatasetName = Empty
    THEN [ok |-> FALSE, err |-> logErrorErr, missing |-> "DatasetName",
          logs |-> <<Error("Missing DatasetName in Post Body")>>]
    ELSE IF body.StorageBucket = Empty
    THEN [ok |-> FALSE, err |-> logErrorErr, missing |-> "StorageBucket",
          logs |-> <<Error("Missing StorageBucket in Post Body")>>]
    ELSE [ok |-> TRUE, err |-> FALSE, missing |-> "none", logs |-> <<>>]

\* checkPostBody: ok, the returned error, the field named in the log entry.
checkPostBody(body) ==
    IF body.DatasetName = Empty
    THEN [ok |-> FALSE, err |-> logErrorErr, missing |-> "DatasetName",
          logs |-> <<Error("Missing DatasetName in Post Body")>>]
    ELSE IF body.TableName = Empty
    THEN [ok |-> FALSE, err |-> logErrorErr, missing |-> "TableName",
          logs |-> <<Error("Missing TableName in Post Body")>>]
    ELSE IF body.StorageBucket = Empty
    THEN [ok |-> FALSE, err |-> logErrorErr, missing |-> "StorageBucket",
          logs |-> <<Error("Missing StorageBucket in Post Body")>>]
    ELSE [ok |-> TRUE, err |-> FALSE, missing |-> "none", logs |-> <<>>]

setBackupParams(b, body) ==
    [b EXCEPT !.sourceDatasetID = body.DatasetName,
              !.backupTableID = body.TableName,
              !.storageBucket = body.StorageBucket,
              !.destinationFormat = body.Format,
              !.compressionType = body.Compression]

\* What Dataset.Metadata / Table.Metadata answer: an error, or metadata
\* carrying a fully-qualified identifier.
DatasetFullID(project, dataset) == project \o <<":">> \o dataset
TableFullID(project, dataset, table) ==
    project \o <<":">> \o dataset \o <<".">> \o table

MetadataError == [err |-> TRUE, FullID |-> Empty]

DatasetReplies ==
    {MetadataError} \cup
    {[err |-> FALSE, FullID |-> DatasetFullID(p, d)] :
        p \in ServiceProjects, d \in ServiceDatasets}

TableReplies ==
    {MetadataError} \cup
    {[err |-> FALSE, FullID |-> TableFullID(p, d, t)] :
        p \in ServiceProjects, d \in ServiceDatasets, t \in ServiceTables}

\* A validateDataset that accepts any answer that is not an error.
validateDatasetAnyIdentifier(b, md) ==
    IF md.err THEN [ok |-> FALSE, err |-> TRUE]
    ELSE [ok |-> TRUE, err |-> FALSE]

validateDataset(b, md) ==
    IF md.err THEN [ok |-> FALSE, err |-> TRUE]
    ELSE IF md.FullID = b.projectID \o <<":">> \o b.sourceDatasetID
    THEN [ok |-> TRUE, err |-> FALSE]
    ELSE [ok |-> FALSE, err |-> FALSE]

\* validateTable prints md.FullID before it looks at err; on an error md is
\* nil and the read panics.
validateTable(b, md) ==
    IF md.err THEN [ok |-> FALSE, err |-> TRUE, panic |-> TRUE]
    ELSE IF md.FullID =
            b.projectID \o <<":">> \o b.sourceDatasetID \o <<".">> \o b.backupTableID
    THEN [ok |-> TRUE, err |-> FALSE, panic |-> FALSE]
    ELSE [ok |-> FALSE, err |-> FALSE, panic |-> FALSE]

\* A validateStorageBucket that does not look at what Attrs returned.
validateStorageBucketAttrsIgnored(clientErr, attrsErr) ==
    IF clientErr THEN [ok |-> FALSE, err |-> TRUE]
    ELSE [ok |-> TRUE, err |-> FALSE]

\* validateStorageBucket: attrs is asked for only when the client exists.
validateStorageBucket(clientErr, attrsErr) ==
    IF clientErr THEN [ok |-> FALSE, err |-> TRUE]
    ELSE IF attrsErr THEN [ok |-> FALSE, err |-> TRUE]
    ELSE [ok |-> TRUE, err |-> FALSE]

----------------------------------------------------------------------------
\* Format and compression

\* A setCSVAndJSONCompression that keeps a compression the caller supplied.
setCSVAndJSONCompressionKeepsSupplied(b) ==
    LET b1 == IF b.compressionType = Empty
              THEN [b EXCEPT !.compressionType = gzipCompression]
              ELSE b
    IN  [bp |-> b1, err |-> logInfoErr,
         logs |-> <<Info("Backup format, Backup compression")>>]

\* setCSVAndJSONCompression: the receiver after the call, the error, the
\* entries written.
setCSVAndJSONCompression(b) ==
    LET b1 == [b EXCEPT !.compressionType = gzipCompression]
        err == logInfoErr
    IN  [bp |-> b1, err |-> err,
         logs |-> <<Info("Backup format, Backup compression")>>]

\* A setAvroParquetCompression that always ends with SNAPPY.
setAvroParquetCompressionAlwaysSnappy(b) ==
    [bp |-> [b EXCEPT !.compressionType = snappyCompression],
     err |-> FALSE, logs |-> <<>>]

\* setAvroParquetCompression: everything but the final "return nil" sits
\* inside the test for an empty compression type.
setAvroParquetCompression(b) ==
    IF b.compressionType = Empty
    THEN LET b1 == [b EXCEPT !.compressionType = snappyCompression]
             first == <<Info("BigQuery Table will be Backup format")>>
             err == logInfoErr
         IN  IF err THEN [bp |-> b1, err |-> TRUE, logs |-> first]
             ELSE IF \/ b1.compressionType = deflateCompression
                     \/ b1.compressionType = snappyCompression
             THEN [bp |-> b1, err |-> logInfoErr,
                   logs |-> first \o <<Info("Backup format, Backup compression")>>]
             ELSE [bp |-> [b1 EXCEPT !.compressionType = snappyCompression],
                   err |-> FALSE, logs |-> first]
    ELSE [bp |-> b, err |-> FALSE, logs |-> <<>>]

\* A default arm that keeps a compression the caller supplied.
defaultFormatKeepsSupplied(b) ==
    [bp |-> [b EXCEPT !.destinationFormat = avroFormat,
                      !.compressionType =
                          IF @ = Empty THEN snappyCompression ELSE @],
     err |-> FALSE, logs |-> <<>>]

\* The default arm of checkBackupFormat's switch.
defaultFormat(b) ==
    [bp |-> [b EXCEPT !.destinationFormat = avroFormat,
                      !.compressionType = snappyCompression],
     err |-> FALSE, logs |-> <<>>]

\* checkBackupFormat: the receiver after the call, ok, err, entries written.
checkBackupFormat(b) ==
    LET r == IF b.destinationFormat = csvFormat
                THEN setCSVAndJSONCompression(b)
             ELSE IF b.destinationFormat = jsonFormat
                THEN setCSVAndJSONCompression(b)
             ELSE IF b.destinationFormat = avroFormat
                THEN setAvroParquetCompression(b)
             ELSE IF b.destinationFormat = parquetFormat
                THEN setAvroParquetCompression(b)
             ELSE defaultFormat(b)
    IN  [bp |-> r.bp, ok |-> ~r.err, err |-> r.err, logs |-> r.logs]

----------------------------------------------------------------------------
\* The export job

\* setupExtractor at time now: what the extractor is configured with.
setupExtractor(b, now) ==
    LET backup == b.backupTableID \o <<".">> \o FormatDate(now)
        gcsURI ==
            <<"g", "s", ":", "/", "/">> \o b.storageBucket \o <<"/">> \o
            b.sourceDatasetID \o <<"/">> \o backup \o <<"/">> \o
            b.backupTableID \o <<"-", "*", ".">> \o
            ToLower(b.destinationFormat)
    IN  [project |-> b.projectID, dataset |-> b.sourceDatasetID,
         table |-> b.backupTableID, gcsURI |-> gcsURI,
         DisableHeader |-> TRUE,
         DestinationFormat |-> b.destinationFormat,
         Compression |-> b.compressionType]

\* No extractor has been set up.
NoExtractor ==
    [project |-> Empty, dataset |-> Empty, table |-> Empty, gcsURI |-> Empty,
     DisableHeader |-> FALSE, DestinationFormat |-> Empty,
     Compression |-> Empty]

\* runExtractor, given whether Extractor.Run failed: err is overwritten with
\* what logError returns before it is returned.
runExtractor(runErr) ==
    IF runErr
    THEN LET err == logErrorErr
         IN  [jobNil |-> TRUE, err |-> err,
              logs |-> <<Error("Error starting backup of table")>>]
    ELSE LET err == logInfoErr
         IN  IF err
             THEN [jobNil |-> TRUE, err |-> err,
                   logs |-> <<Info("Backup started successfully")>>]
             ELSE [jobNil |-> FALSE, err |-> FALSE,
                   logs |-> <<Info("Backup started successfully")>>]

\* waitForJob, given whether Job.Wait failed and whether the final status
\* carries an error: in both error arms a new err shadows the outer one and
\* holds what logError returns.
waitForJob(waitErr, statusErr) ==
    IF waitErr
    THEN LET err == logErrorErr
         IN  [ok |-> ~err, err |-> err,
              logs |-> <<Error("Error waiting for backup of table")>>]
    ELSE IF statusErr
    THEN LET err == logErrorErr
         IN  [ok |-> ~err, err |-> err,
              logs |-> <<Error("Error backing up table")>>]
    ELSE LET err == logInfoErr
         IN  [ok |-> ~err, err |-> err,
              logs |-> <<Info("Backup completed successfully")>>]

----------------------------------------------------------------------------
\* State

VARIABLES
    env,         \* the value of GCP_PROJECT
    proc,        \* "starting", "serving" or "exited"
    bcOnce,      \* whether bcOnce.Do has run its function
    bc,          \* the package-level client: nil, or its project and whether
                 \* Close has been called on it
    served,      \* requests taken so far
    pc,          \* where the handler of the current request stands
    bp,          \* backupParams of the current request
    pb,          \* postBodyParams of the current request
    logs,        \* entries the current request has written, in order
    calls,       \* remote calls the current request has made, in order
    entered,     \* functions the current request has called, in order
    obs,         \* what the collaborators answered to the current request
    ret,         \* what the functions of the current request returned
    extractor,   \* the extractor setupExtractor configured
    httpStatus,  \* status the caller receives; 0 while none was produced
    created,     \* how many times bigquery.NewClient has been called
    onceLock,    \* the caller that holds the mutex of bcOnce; 0 when free
    cpc,         \* where each concurrent caller of setBigQueryClient stands
    cres         \* what each concurrent caller got back

vars ==
    <<env, proc, bcOnce, bc, served, pc, bp, pb, logs, calls, entered, obs,
      ret, extractor, httpStatus, created, onceLock, cpc, cres>>

\* The state of the concurrent callers.
concVars == <<onceLock, cpc, cres>>

\* The state of the request the handler is serving.
reqVars ==
    <<env, served, pc, bp, pb, calls, entered, obs, ret, extractor,
      httpStatus>>

Callers == 1..NumCallers

NilClient == [nil |-> TRUE, project |-> Empty, closed |-> FALSE]

NoObs ==
    [projectEnv |-> Empty, decodeErr |-> FALSE, bodyDecoded |-> FALSE, newClientErr |-> FALSE,
     datasetMd |-> MetadataError, tableMd |-> MetadataError,
     bucketClientErr |-> FALSE, attrsErr |-> FALSE,
     now |-> NoTime,
     runErr |-> FALSE, waitErr |-> FALSE, statusErr |-> FALSE]

NoRet ==
    [setProjectIDErr |-> FALSE, setBigQueryClientErr |-> FALSE,
     missing |-> "none", handleSetupErr |-> FALSE,
     validDataset |-> FALSE, validTable |-> FALSE, validBucket |-> FALSE,
     validateParamsErr |-> FALSE, formatOk |-> FALSE,
     jobNil |-> TRUE, runExtractorErr |-> FALSE,
     waitOk |-> FALSE, waitErr |-> FALSE,
     backupOk |-> FALSE, backupErr |-> FALSE]

\* Positions at which no handler is running.
Resting == {"idle", "returned", "panicked"}

Init ==
    /\ env \in EnvValues
    /\ proc = "starting"
    /\ bcOnce = FALSE
    /\ bc = NilClient
    /\ served = 0
    /\ pc = "idle"
    /\ bp = ZeroParams
    /\ pb = ZeroBody
    /\ logs = <<>>
    /\ calls = <<>>
    /\ entered = <<>>
    /\ obs = NoObs
    /\ ret = NoRet
    /\ extractor = NoExtractor
    /\ httpStatus = 0
    /\ created = 0
    /\ onceLock = 0
    /\ cpc = [c \in Callers |-> "idle"]
    /\ cres = [c \in Callers |-> "none"]

----------------------------------------------------------------------------
\* Ways a step of the handler ends

\* The handler returns without writing a status: net/http answers 200.
Return ==
    /\ pc' = "returned"
    /\ httpStatus' = 200

\* The handler panics: the functions framework recovers and answers 500.
Panic ==
    /\ pc' = "panicked"
    /\ httpStatus' = 500

\* logInfo / logError cannot create the logging client: log.Fatalf ends the
\* process.  k of the entries es were written, the calls cs were made and
\* the functions fs were entered before that.
Fatal(es, k, cs, fs) ==
    /\ k < Len(es)
    /\ proc' = "exited"
    /\ pc' = "exited"
    /\ logs' = logs \o SubSeq(es, 1, k)
    /\ calls' = calls \o cs
    /\ entered' = entered \o fs
    /\ UNCHANGED <<env, bcOnce, bc, served, bp, pb, obs, ret, extractor,
                   httpStatus>>

\* The same inside backupBigQueryTable, where the extractor x was set up at
\* the time recorded in o before the first entry is written.
FatalAfterSetup(es, k, cs, fs, x, o) ==
    /\ k < Len(es)
    /\ proc' = "exited"
    /\ pc' = "exited"
    /\ logs' = logs \o SubSeq(es, 1, k)
    /\ calls' = calls \o cs
    /\ entered' = entered \o fs
    /\ extractor' = x
    /\ obs' = o
    /\ UNCHANGED <<env, bcOnce, bc, served, bp, pb, ret, httpStatus>>

----------------------------------------------------------------------------
\* The process and its environment

\* init of the command: fatal when GCP_PROJECT is empty.
mainInit ==
    /\ UNCHANGED <<created, onceLock, cpc, cres>>
    /\ proc = "starting"
    /\ proc' = IF env = Empty THEN "exited" ELSE "serving"
    /\ UNCHANGED <<env, bcOnce, bc, served, pc, bp, pb, logs, calls, entered,
                   obs, ret, extractor, httpStatus>>

\* os.Setenv / os.Unsetenv between two requests.
Setenv(v) ==
    /\ UNCHANGED <<created, onceLock, cpc, cres>>
    /\ proc = "serving"
    /\ pc \in Resting
    /\ v # env
    /\ env' = v
    /\ UNCHANGED <<proc, bcOnce, bc, served, pc, bp, pb, logs, calls, entered,
                   obs, ret, extractor, httpStatus>>

----------------------------------------------------------------------------
\* The handler bigQueryBackup, step by step

\* A request arrives: a fresh backupParams, then setProjectID.
Request ==
    /\ UNCHANGED <<created, onceLock, cpc, cres>>
    /\ proc = "serving"
    /\ pc \in Resting
    /\ served < MaxRequests
    /\ served' = served + 1
    /\ LET r == setProjectID(ZeroParams, env)
       IN  /\ bp' = r.bp
           /\ ret' = [NoRet EXCEPT !.setProjectIDErr = r.err]
           /\ IF r.err
              THEN Return
              ELSE pc' = "setBigQueryClient" /\ httpStatus' = 0
    /\ pb' = ZeroBody
    /\ logs' = <<>>
    /\ calls' = <<>>
    /\ entered' = <<"setProjectID">>
    /\ obs' = [NoObs EXCEPT !.projectEnv = env]
    /\ extractor' = NoExtractor
    /\ UNCHANGED <<env, proc, bcOnce, bc>>

\* The value setBigQueryClient returns: nil, whatever bigquery.NewClient
\* returned.
setBigQueryClientResult == FALSE

\* The deferred bc.Close() of setBigQueryClient and what follows it.  Close
\* on a nil client panics or does nothing, depending on the client library;
\* setBigQueryClient itself always returns nil.
CloseAndReturn(client, nilClosePanics) ==
    LET err == setBigQueryClientResult
        Returned == /\ ret' = [ret EXCEPT !.setBigQueryClientErr = err]
                    /\ IF err
                       THEN Return
                       ELSE pc' = "handleSetup" /\ UNCHANGED httpStatus
    IN  IF client.nil
        THEN /\ bc' = client
             /\ IF nilClosePanics
                THEN Panic /\ UNCHANGED ret
                ELSE Returned
        ELSE /\ bc' = [client EXCEPT !.closed = TRUE]
             /\ Returned

\* setBigQueryClient: bcOnce.Do creates the client on the first call only.
SetBigQueryClient ==
    /\ UNCHANGED concVars
    /\ proc = "serving"
    /\ pc = "setBigQueryClient"
    /\ \E newClientErr \in BOOLEAN, nilClosePanics \in BOOLEAN :
        LET fs == <<"setBigQueryClient">> IN
        IF bcOnce
        THEN /\ CloseAndReturn(bc, nilClosePanics)
             /\ entered' = entered \o fs
             /\ UNCHANGED <<env, proc, bcOnce, served, bp, pb, logs, calls,
                            obs, extractor, created>>
        ELSE LET es == IF newClientErr
                       THEN <<Error("Failed to create new BigQuery client")>>
                       ELSE <<>>
                 client == IF newClientErr
                           THEN NilClient
                           ELSE [nil |-> FALSE, project |-> bp.projectID,
                                 closed |-> FALSE]
             IN  \/ /\ bcOnce' = TRUE
                    /\ created' = created + 1
                    /\ obs' = [obs EXCEPT !.newClientErr = newClientErr]
                    /\ logs' = logs \o es
                    /\ entered' = entered \o fs
                    /\ CloseAndReturn(client, nilClosePanics)
                    /\ UNCHANGED <<env, proc, served, bp, pb, calls,
                                   extractor>>
                 \/ /\ created' = created + 1
                    /\ \E k \in 0..Len(es) : Fatal(es, k, <<>>, fs)

\* handleSetup: decodePostBody, checkPostBody, setBackupParams.
HandleSetup ==
    /\ UNCHANGED <<created, onceLock, cpc, cres>>
    /\ proc = "serving"
    /\ pc = "handleSetup"
    /\ \/ \* the body is not JSON
          LET es == <<Error("Failed to decode POST body")>>
          IN  \/ /\ obs' = [obs EXCEPT !.decodeErr = TRUE]
                 /\ entered' = entered \o <<"handleSetup">>
                 /\ logs' = logs \o es
                 /\ ret' = [ret EXCEPT !.handleSetupErr = TRUE]
                 /\ Return
                 /\ UNCHANGED <<env, proc, bcOnce, bc, served, bp, pb, calls,
                                extractor>>
              \/ \E k \in 0..Len(es) : Fatal(es, k, <<>>, <<"handleSetup">>)
       \/ \E body \in PostBodies :
          LET chk == checkPostBody(body)
              bad == ~chk.ok \/ chk.err
              es == IF bad
                    THEN chk.logs \o <<Error("Invalid POST body")>>
                    ELSE <<Info("Backup params")>>
              err == logInfoErr
          IN  \/ /\ pb' = body
                 /\ obs' = [obs EXCEPT !.bodyDecoded = TRUE]
                 /\ entered' = entered \o <<"handleSetup">>
                 /\ logs' = logs \o es
                 /\ IF bad
                    THEN /\ ret' = [ret EXCEPT !.missing = chk.missing,
                                               !.handleSetupErr = TRUE]
                         /\ Return
                         /\ UNCHANGED bp
                    ELSE /\ bp' = setBackupParams(bp, body)
                         /\ ret' = [ret EXCEPT !.handleSetupErr = err]
                         /\ IF err
                            THEN Return
                            ELSE pc' = "validateDataset" /\ UNCHANGED httpStatus
                 /\ UNCHANGED <<env, proc, bcOnce, bc, served, calls, extractor>>
              \/ \E k \in 0..Len(es) : Fatal(es, k, <<>>, <<"handleSetup">>)

----------------------------------------------------------------------------
\* validateParams: the three checks, one remote call each

\* validateDataset and the first test of validateParams.  bc.Dataset reads
\* the client's project, so a nil client panics.
ValidateDataset ==
    /\ UNCHANGED <<created, onceLock, cpc, cres>>
    /\ proc = "serving"
    /\ pc = "validateDataset"
    /\ IF bc.nil
       THEN /\ Panic
            /\ entered' = entered \o <<"validateParams", "validateDataset">>
            /\ UNCHANGED <<env, proc, bcOnce, bc, served, bp, pb, logs, calls,
                           obs, ret, extractor>>
       ELSE \E md \in DatasetReplies :
            LET r == validateDataset(bp, md)
                bad == r.err \/ ~r.ok
                es == IF bad
                      THEN <<Error("Dataset does not exist or is not valid")>>
                      ELSE <<>>
                cs == <<"Dataset.Metadata">>
                fs == <<"validateParams", "validateDataset">>
            IN  \/ /\ calls' = calls \o cs
                   /\ entered' = entered \o fs
                   /\ obs' = [obs EXCEPT !.datasetMd = md]
                   /\ logs' = logs \o es
                   /\ ret' = [ret EXCEPT !.validDataset = r.ok,
                                         !.validateParamsErr = bad]
                   /\ IF bad
                      THEN Return
                      ELSE pc' = "validateTable" /\ UNCHANGED httpStatus
                   /\ UNCHANGED <<env, proc, bcOnce, bc, served, bp, pb,
                                  extractor>>
                \/ \E k \in 0..Len(es) : Fatal(es, k, cs, fs)

\* validateTable and the second test of validateParams.
ValidateTable ==
    /\ UNCHANGED <<created, onceLock, cpc, cres>>
    /\ proc = "serving"
    /\ pc = "validateTable"
    /\ \E md \in TableReplies :
       LET r == validateTable(bp, md)
           bad == r.err \/ ~r.ok
           es == IF bad /\ ~r.panic
                 THEN <<Error("Table does not exist or is not valid")>>
                 ELSE <<>>
           cs == <<"Table.Metadata">>
           fs == <<"validateTable">>
       IN  \/ /\ calls' = calls \o cs
              /\ entered' = entered \o fs
              /\ obs' = [obs EXCEPT !.tableMd = md]
              /\ logs' = logs \o es
              /\ IF r.panic
                 THEN /\ Panic
                      /\ UNCHANGED ret
                 ELSE /\ ret' = [ret EXCEPT !.validTable = r.ok,
                                            !.validateParamsErr = bad]
                      /\ IF bad
                         THEN Return
                         ELSE /\ pc' = "validateStorageBucket"
                              /\ UNCHANGED httpStatus
              /\ UNCHANGED <<env, proc, bcOnce, bc, served, bp, pb, extractor>>
           \/ \E k \in 0..Len(es) : Fatal(es, k, cs, fs)

\* validateStorageBucket and the last test of validateParams.
ValidateStorageBucket ==
    /\ UNCHANGED <<created, onceLock, cpc, cres>>
    /\ proc = "serving"
    /\ pc = "validateStorageBucket"
    /\ \E clientErr \in BOOLEAN, attrsErr \in BOOLEAN :
       /\ clientErr => ~attrsErr
       /\ LET r == validateStorageBucket(clientErr, attrsErr)
              bad == ~r.ok \/ r.err
              es == IF bad
                    THEN <<Error("Problem validating storage bucket")>>
                    ELSE <<>>
              cs == IF clientErr THEN <<>> ELSE <<"Bucket.Attrs">>
              fs == <<"validateStorageBucket">>
          IN  \/ /\ calls' = calls \o cs
                 /\ entered' = entered \o fs
                 /\ obs' = [obs EXCEPT !.bucketClientErr = clientErr,
                                       !.attrsErr = attrsErr]
                 /\ logs' = logs \o es
                 /\ ret' = [ret EXCEPT !.validBucket = r.ok,
                                       !.validateParamsErr = bad]
                 /\ IF bad
                    THEN Return
                    ELSE pc' = "checkBackupFormat" /\ UNCHANGED httpStatus
                 /\ UNCHANGED <<env, proc, bcOnce, bc, served, bp, pb,
                                extractor>>
              \/ \E k \in 0..Len(es) : Fatal(es, k, cs, fs)

----------------------------------------------------------------------------
\* checkBackupFormat and the handler's test of its result.
CheckBackupFormat ==
    /\ UNCHANGED <<created, onceLock, cpc, cres>>
    /\ proc = "serving"
    /\ pc = "checkBackupFormat"
    /\ LET r == checkBackupFormat(bp)
           bad == ~r.ok \/ r.err
           es == IF bad
                 THEN r.logs \o <<Error("Problem validating destination format")>>
                 ELSE r.logs
           fs == <<"checkBackupFormat">>
       IN  \/ /\ bp' = r.bp
              /\ entered' = entered \o fs
              /\ logs' = logs \o es
              /\ ret' = [ret EXCEPT !.formatOk = r.ok]
              /\ IF bad
                 THEN Return
                 ELSE pc' = "backupBigQueryTable" /\ UNCHANGED httpStatus
              /\ UNCHANGED <<env, proc, bcOnce, bc, served, pb, calls, obs,
                             extractor>>
           \/ \E k \in 0..Len(es) : Fatal(es, k, <<>>, fs)

----------------------------------------------------------------------------
\* backupBigQueryTable and the handler's test of its result

\* The last statement of the handler: an entry is written only when
\* backupBigQueryTable returned false together with a non-nil error.
handlerBackupLogs(ok, err) ==
    IF ~ok
    THEN IF err THEN <<Error("Problem backing up BigQuery table")>> ELSE <<>>
    ELSE <<>>

\* backupBigQueryTable up to and including runExtractor.
RunExtractor ==
    /\ UNCHANGED <<created, onceLock, cpc, cres>>
    /\ proc = "serving"
    /\ pc = "backupBigQueryTable"
    /\ \E runErr \in BOOLEAN, now \in Dates :
       LET first == <<Info("Starting backup of table")>>
           r == runExtractor(runErr)
           es == first \o r.logs \o
                 (IF r.err THEN handlerBackupLogs(FALSE, r.err) ELSE <<>>)
           cs == <<"Extractor.Run">>
           fs == <<"backupBigQueryTable", "runExtractor">>
       IN  \/ /\ extractor' = setupExtractor(bp, now)
              /\ calls' = calls \o cs
              /\ entered' = entered \o fs
              /\ obs' = [obs EXCEPT !.runErr = runErr, !.now = now]
              /\ logs' = logs \o es
              /\ IF r.err
                 THEN /\ ret' = [ret EXCEPT !.jobNil = r.jobNil,
                                            !.runExtractorErr = r.err,
                                            !.backupOk = FALSE,
                                            !.backupErr = r.err]
                      /\ Return
                 ELSE /\ ret' = [ret EXCEPT !.jobNil = r.jobNil,
                                            !.runExtractorErr = r.err]
                      /\ pc' = "waitForJob"
                      /\ UNCHANGED httpStatus
              /\ UNCHANGED <<env, proc, bcOnce, bc, served, bp, pb>>
           \/ FatalAfterSetup(es, 0, <<>>, <<"backupBigQueryTable">>,
                              setupExtractor(bp, now),
                              [obs EXCEPT !.now = now])
           \/ \E k \in 1..Len(es) :
                 FatalAfterSetup(es, k, cs, fs, setupExtractor(bp, now),
                                 [obs EXCEPT !.runErr = runErr, !.now = now])

\* waitForJob, the rest of backupBigQueryTable and of the handler.  Job.Wait
\* on a nil job panics.
WaitForJob ==
    /\ UNCHANGED <<created, onceLock, cpc, cres>>
    /\ proc = "serving"
    /\ pc = "waitForJob"
    /\ IF ret.jobNil
       THEN /\ Panic
            /\ entered' = entered \o <<"waitForJob">>
            /\ UNCHANGED <<env, proc, bcOnce, bc, served, bp, pb, logs, calls,
                           obs, ret, extractor>>
       ELSE \E waitErr \in BOOLEAN, statusErr \in BOOLEAN :
            /\ waitErr => ~statusErr
            /\ LET r == waitForJob(waitErr, statusErr)
                   backupOk == r.ok
                   backupErr == IF r.ok THEN FALSE ELSE r.err
                   es == r.logs \o handlerBackupLogs(backupOk, backupErr)
                   cs == <<"Job.Wait">>
                   fs == <<"waitForJob">>
               IN  \/ /\ calls' = calls \o cs
                      /\ entered' = entered \o fs
                      /\ obs' = [obs EXCEPT !.waitErr = waitErr,
                                            !.statusErr = statusErr]
                      /\ logs' = logs \o es
                      /\ ret' = [ret EXCEPT !.waitOk = r.ok,
                                            !.waitErr = r.err,
                                            !.backupOk = backupOk,
                                            !.backupErr = backupErr]
                      /\ Return
                      /\ UNCHANGED <<env, proc, bcOnce, bc, served, bp, pb,
                                     extractor>>
                   \/ \E k \in 0..Len(es) : Fatal(es, k, cs, fs)

----------------------------------------------------------------------------
Next ==
    \/ mainInit
    \/ \E v \in EnvValues : Setenv(v)
    \/ Request
    \/ SetBigQueryClient
    \/ HandleSetup
    \/ ValidateDataset
    \/ ValidateTable
    \/ ValidateStorageBucket
    \/ CheckBackupFormat
    \/ RunExtractor
    \/ WaitForJob

Spec == Init /\ [][Next]_vars

----------------------------------------------------------------------------
\* setBigQueryClient called from several goroutines at once, as the
\* concurrency test does: one backupParams with a project, no request.

\* A Once that runs its function whether or not it has run before.
onceRunsAgain(done) == TRUE

\* sync.Once.Do, under its mutex: the function runs only if it has not.
onceMustRun(done) == ~done

OnceInit ==
    /\ env = <<"p", "1">>
    /\ proc = "serving"
    /\ bcOnce = FALSE
    /\ bc = NilClient
    /\ served = 0
    /\ pc = "idle"
    /\ bp = [ZeroParams EXCEPT !.projectID = <<"p", "1">>]
    /\ pb = ZeroBody
    /\ logs = <<>>
    /\ calls = <<>>
    /\ entered = <<>>
    /\ obs = NoObs
    /\ ret = NoRet
    /\ extractor = NoExtractor
    /\ httpStatus = 0
    /\ created = 0
    /\ onceLock = 0
    /\ cpc = [c \in Callers |-> "start"]
    /\ cres = [c \in Callers |-> "none"]

\* bcOnce.Do, fast path: a Once that is done is passed without the mutex.
CallDo(c) ==
    /\ proc = "serving"
    /\ cpc[c] = "start"
    /\ cpc' = [cpc EXCEPT ![c] = IF bcOnce THEN "close" ELSE "lock"]
    /\ UNCHANGED <<proc, bcOnce, bc, logs, created, onceLock, cres>>
    /\ UNCHANGED reqVars

\* bcOnce.Do, slow path: take the mutex and look at done again.
CallLock(c) ==
    /\ proc = "serving"
    /\ cpc[c] = "lock"
    /\ onceLock = 0
    /\ IF onceMustRun(bcOnce)
       THEN /\ onceLock' = c
            /\ cpc' = [cpc EXCEPT ![c] = "create"]
       ELSE /\ onceLock' = 0
            /\ cpc' = [cpc EXCEPT ![c] = "close"]
    /\ UNCHANGED <<proc, bcOnce, bc, logs, created, cres>>
    /\ UNCHANGED reqVars

\* The function given to bcOnce.Do, then done is set and the mutex released.
CallCreate(c) ==
    /\ proc = "serving"
    /\ cpc[c] = "create"
    /\ onceLock = c
    /\ created' = created + 1
    /\ \E newClientErr \in BOOLEAN :
       LET es == IF newClientErr
                 THEN <<Error("Failed to create new BigQuery client")>>
                 ELSE <<>>
       IN  \/ /\ bc' = IF newClientErr
                        THEN NilClient
                        ELSE [nil |-> FALSE, project |-> bp.projectID,
                              closed |-> FALSE]
              /\ logs' = logs \o es
              /\ bcOnce' = TRUE
              /\ onceLock' = 0
              /\ cpc' = [cpc EXCEPT ![c] = "close"]
              /\ UNCHANGED <<proc, cres>>
           \/ \* the logging client cannot be created: log.Fatalf
              /\ newClientErr
              /\ proc' = "exited"
              /\ UNCHANGED <<bcOnce, bc, logs, onceLock, cpc, cres>>
    /\ UNCHANGED reqVars

\* The deferred bc.Close(), then return nil.
CallClose(c) ==
    /\ proc = "serving"
    /\ cpc[c] = "close"
    /\ \E nilClosePanics \in BOOLEAN :
       IF bc.nil
       THEN /\ cres' = [cres EXCEPT ![c] = IF nilClosePanics
                                            THEN "panic" ELSE "nil"]
            /\ UNCHANGED bc
       ELSE /\ cres' = [cres EXCEPT ![c] = "nil"]
            /\ bc' = [bc EXCEPT !.closed = TRUE]
    /\ cpc' = [cpc EXCEPT ![c] = "done"]
    /\ UNCHANGED <<proc, bcOnce, logs, created, onceLock>>
    /\ UNCHANGED reqVars

OnceNext ==
    \E c \in Callers :
        \/ CallDo(c)
        \/ CallLock(c)
        \/ CallCreate(c)
        \/ CallClose(c)

OnceSpec == OnceInit /\ [][OnceNext]_vars

----------------------------------------------------------------------------
\* Properties

Called(c) == \E i \in DOMAIN calls : calls[i] = c
Entered(f) == \E i \in DOMAIN entered : entered[i] = f
Logged(e) == \E i \in DOMAIN logs : logs[i] = e

\* No handler of the current request is running any more.
Ended == pc \in {"returned", "panicked"}

\* C1: an export job is submitted only after the body decoded, the three
\* required fields were non-empty and the dataset, table and bucket checks
\* succeeded, in that order; a request whose bucket lookup failed has ended
\* at the bucket check without a job.
C1_JobOnlyAfterChecks ==
    /\ Called("Extractor.Run") =>
          /\ obs.bodyDecoded /\ ~obs.decodeErr
          /\ pb.DatasetName # Empty
          /\ pb.TableName # Empty
          /\ pb.StorageBucket # Empty
          /\ ~obs.datasetMd.err
          /\ obs.datasetMd.FullID = DatasetFullID(bp.projectID, pb.DatasetName)
          /\ ~obs.tableMd.err
          /\ obs.tableMd.FullID =
                TableFullID(bp.projectID, pb.DatasetName, pb.TableName)
          /\ ~obs.bucketClientErr /\ ~obs.attrsErr
          /\ ret.validDataset /\ ret.validTable /\ ret.validBucket
          /\ SubSeq(calls, 1, 4) =
                <<"Dataset.Metadata", "Table.Metadata", "Bucket.Attrs",
                  "Extractor.Run">>
    /\ obs.attrsErr =>
          /\ pc = "returned"
          /\ calls = <<"Dataset.Metadata", "Table.Metadata", "Bucket.Attrs">>
          /\ ~Entered("checkBackupFormat")
          /\ ~Entered("backupBigQueryTable")
          /\ Logged(Error("Problem validating storage bucket"))

\* A job was submitted for the current request.
C1_Witness == Called("Extractor.Run") /\ ~obs.runErr /\ pc = "waitForJob"

\* The export job of the current request ran to a final status without error.
BackupSucceeded == Called("Job.Wait") /\ ~obs.waitErr /\ ~obs.statusErr

\* C2: when the wait on a started job fails, or its final status carries an
\* error, the failure is logged, waitForJob returns false with the error and
\* backupBigQueryTable returns false.
C2_WaitFailureReported ==
    (Called("Job.Wait") /\ (obs.waitErr \/ obs.statusErr)) =>
        /\ \/ Logged(Error("Error waiting for backup of table"))
           \/ Logged(Error("Error backing up table"))
        /\ ~ret.waitOk
        /\ ret.waitErr
        /\ ~ret.backupOk

\* C3: when submitting the export job fails, the failure is logged,
\* runExtractor returns a non-nil error, backupBigQueryTable returns false
\* and waitForJob is never entered.
C3_SubmitFailureAborts ==
    (Called("Extractor.Run") /\ obs.runErr) =>
        /\ Logged(Error("Error starting backup of table"))
        /\ ret.runExtractorErr
        /\ ~ret.backupOk
        /\ ~Entered("waitForJob")
        /\ pc = "returned"

\* C4: the caller receives 200 exactly when the backup succeeded, and 500
\* whenever a validation failed or the job met an error.
C4_StatusTellsOutcome ==
    Ended =>
        /\ (httpStatus = 200) <=> BackupSucceeded
        /\ ~BackupSucceeded => httpStatus = 500

\* The body of the current request lacks a required field.
LacksField ==
    \/ pb.DatasetName = Empty
    \/ pb.TableName = Empty
    \/ pb.StorageBucket = Empty

\* The entry that names the first empty field in the order dataset_name,
\* table_name, storage_bucket.
FirstMissingEntry ==
    IF pb.DatasetName = Empty THEN Error("Missing DatasetName in Post Body")
    ELSE IF pb.TableName = Empty THEN Error("Missing TableName in Post Body")
    ELSE Error("Missing StorageBucket in Post Body")

\* The entries that report a missing field.
MissingEntries ==
    {Error("Missing DatasetName in Post Body"),
     Error("Missing TableName in Post Body"),
     Error("Missing StorageBucket in Post Body")}

\* C5: a request whose decoded body lacks dataset_name, table_name or
\* storage_bucket has ended without any remote call, and the only field it
\* reported missing is the first empty one in that order.
C5_MissingFieldAbortsFirst ==
    (obs.bodyDecoded /\ LacksField) =>
        /\ pc = "returned"
        /\ ret.handleSetupErr
        /\ calls = <<>>
        /\ ~Entered("validateParams")
        /\ {logs[i] : i \in DOMAIN logs} \cap MissingEntries =
              {FirstMissingEntry}
        /\ logs[Len(logs)] = Error("Invalid POST body")

\* A body with two fields missing was refused.
C5_Witness ==
    /\ obs.bodyDecoded
    /\ pb.DatasetName # Empty
    /\ pb.TableName = Empty
    /\ pb.StorageBucket = Empty
    /\ pc = "returned"

\* checkBackupFormat has returned to the handler of the current request.
FormatResolved == Entered("checkBackupFormat") /\ pc # "exited"

\* C6: for AVRO or PARQUET and a supplied compression that is not empty and
\* neither SNAPPY nor DEFLATE, the resolved compression is SNAPPY.
C6_UnsupportedCompressionReset ==
    (/\ FormatResolved
     /\ pb.Format \in {avroFormat, parquetFormat}
     /\ pb.Compression \notin {Empty, snappyCompression, deflateCompression})
    => bp.compressionType = snappyCompression

\* C7: for CSV or JSON the resolved compression is GZIP whatever was
\* supplied, and the resolved format is the requested one.
C7_CsvJsonGzip ==
    (FormatResolved /\ pb.Format \in {csvFormat, jsonFormat}) =>
        /\ bp.compressionType = gzipCompression
        /\ bp.destinationFormat = pb.Format

\* CSV was requested with ZSTD.
C7_Witness ==
    /\ FormatResolved
    /\ pb.Format = csvFormat
    /\ pb.Compression = zstdCompression
    /\ pc = "backupBigQueryTable"

\* C8: for AVRO or PARQUET the resolved compression is SNAPPY when none was
\* supplied and the supplied one when that is SNAPPY or DEFLATE, and the
\* resolved format is the requested one.
C8_AvroParquetCompression ==
    (FormatResolved /\ pb.Format \in {avroFormat, parquetFormat}) =>
        /\ pb.Compression = Empty => bp.compressionType = snappyCompression
        /\ pb.Compression \in {snappyCompression, deflateCompression} =>
              bp.compressionType = pb.Compression
        /\ bp.destinationFormat = pb.Format

\* PARQUET was requested with DEFLATE.
C8_Witness ==
    /\ FormatResolved
    /\ pb.Format = parquetFormat
    /\ pb.Compression = deflateCompression
    /\ pc = "backupBigQueryTable"

\* C9: for a requested format that is none of CSV, JSON, AVRO, PARQUET the
\* resolved format is AVRO, the resolved compression is SNAPPY whatever was
\* supplied, and checkBackupFormat reports the format as valid.
C9_UnknownFormatDefaults ==
    (/\ FormatResolved
     /\ pb.Format \notin {csvFormat, jsonFormat, avroFormat, parquetFormat})
    =>  /\ bp.destinationFormat = avroFormat
        /\ bp.compressionType = snappyCompression
        /\ ret.formatOk
        /\ ~Logged(Error("Problem validating destination format"))
        /\ pc # "returned" \/ Entered("backupBigQueryTable")

\* A lower-case spelling of a known format was requested with DEFLATE.
C9_Witness ==
    /\ FormatResolved
    /\ pb.Format = <<"c", "s", "v">>
    /\ pb.Compression = deflateCompression
    /\ pc = "backupBigQueryTable"

\* C10: the dataset check succeeds only on an answer without error whose
\* identifier is exactly project:dataset, the table check only on one whose
\* identifier is exactly project:dataset.table; an answer without error that
\* carries another identifier ends the request before any later step.
C10_ExactIdentifierMatch ==
    /\ ret.validDataset =>
          /\ ~obs.datasetMd.err
          /\ obs.datasetMd.FullID =
                DatasetFullID(bp.projectID, bp.sourceDatasetID)
    /\ ret.validTable =>
          /\ ~obs.tableMd.err
          /\ obs.tableMd.FullID =
                TableFullID(bp.projectID, bp.sourceDatasetID, bp.backupTableID)
    /\ (/\ Called("Dataset.Metadata")
        /\ ~obs.datasetMd.err
        /\ obs.datasetMd.FullID #
              DatasetFullID(bp.projectID, bp.sourceDatasetID))
       => /\ ~ret.validDataset
          /\ pc = "returned"
          /\ calls = <<"Dataset.Metadata">>
          /\ ~Entered("validateTable")
          /\ ~Entered("backupBigQueryTable")
    /\ (/\ Called("Table.Metadata")
        /\ ~obs.tableMd.err
        /\ obs.tableMd.FullID #
              TableFullID(bp.projectID, bp.sourceDatasetID, bp.backupTableID))
       => /\ ~ret.validTable
          /\ pc = "returned"
          /\ calls = <<"Dataset.Metadata", "Table.Metadata">>
          /\ ~Entered("validateStorageBucket")
          /\ ~Entered("backupBigQueryTable")

\* The dataset lookup succeeded with the identifier of the same dataset in
\* another project.
C10_Witness ==
    /\ Called("Dataset.Metadata")
    /\ ~obs.datasetMd.err
    /\ \E p \in ServiceProjects :
          /\ p # bp.projectID
          /\ obs.datasetMd.FullID = DatasetFullID(p, bp.sourceDatasetID)
    /\ pc = "returned"

\* The date part of the path, written out for each day of Dates.
DateText(t) ==
    IF t = [year |-> 2024, month |-> 1, day |-> 5]
    THEN <<"2", "0", "2", "4", "-", "0", "1", "-", "0", "5">>
    ELSE IF t = [year |-> 2025, month |-> 12, day |-> 31]
    THEN <<"2", "0", "2", "5", "-", "1", "2", "-", "3", "1">>
    ELSE <<"2", "0", "2", "6", "-", "1", "1", "-", "0", "4">>

\* The extension that belongs to a requested format.
ExtensionFor(format) ==
    IF format = csvFormat THEN <<"c", "s", "v">>
    ELSE IF format = jsonFormat THEN <<"j", "s", "o", "n">>
    ELSE IF format = parquetFormat THEN <<"p", "a", "r", "q", "u", "e", "t">>
    ELSE <<"a", "v", "r", "o">>

\* C11: the destination path handed to the export job is
\* gs://{bucket}/{dataset}/{table}.{YYYY-MM-DD}/{table}-*.{extension}, the
\* extension being the lower-case resolved format, which is avro for a
\* request with no or an unrecognised format.
C11_DestinationPath ==
    Called("Extractor.Run") =>
        /\ extractor.gcsURI =
              <<"g", "s", ":", "/", "/">> \o pb.StorageBucket \o <<"/">> \o
              pb.DatasetName \o <<"/">> \o pb.TableName \o <<".">> \o
              DateText(obs.now) \o <<"/">> \o pb.TableName \o
              <<"-", "*", ".">> \o ExtensionFor(pb.Format)
        /\ extractor.DestinationFormat = bp.destinationFormat
        /\ extractor.DisableHeader

\* A job was submitted in December for a request that named no format.
C11_Witness ==
    /\ Called("Extractor.Run")
    /\ pb.Format = Empty
    /\ extractor.gcsURI =
          <<"g", "s", ":", "/", "/", "b", "/", "d", "s", "/", "t", ".",
            "2", "0", "2", "5", "-", "1", "2", "-", "3", "1", "/",
            "t", "-", "*", ".", "a", "v", "r", "o">>

\* The values of GCP_PROJECT that are empty or only white space.
BlankValues == {Empty, <<" ", " ">>}

\* C12: setProjectID returns an error and leaves projectID unset exactly
\* when the GCP_PROJECT it read is empty or only white space; otherwise it
\* returns no error and projectID is the value read by that call.
C12_SetProjectID ==
    Entered("setProjectID") =>
        /\ ret.setProjectIDErr <=> obs.projectEnv \in BlankValues
        /\ ret.setProjectIDErr => bp.projectID = Empty /\ pc = "returned"
        /\ ~ret.setProjectIDErr =>
              bp.projectID = obs.projectEnv /\ bp.projectID # Empty

\* The second request read a project other than the one the first request
\* had created the client with.
C12_Witness ==
    /\ served = 2
    /\ Entered("setProjectID")
    /\ ~ret.setProjectIDErr
    /\ ~bc.nil
    /\ bc.project = <<"p", "1">>
    /\ bp.projectID = <<"p", "2">>
    /\ env = <<"p", "2">>

C14_HandleOpenAtUse ==
    (Called("Dataset.Metadata") \/ Called("Table.Metadata")
        \/ Called("Extractor.Run"))
        => /\ created = 1
           /\ ~bc.nil
           /\ ~bc.closed

\* The answer to the dataset lookup of the current request fails the check.
DatasetCheckFailed ==
    /\ Called("Dataset.Metadata")
    /\ \/ obs.datasetMd.err
       \/ obs.datasetMd.FullID #
             DatasetFullID(bp.projectID, bp.sourceDatasetID)

\* The answer to the table lookup of the current request fails the check.
TableCheckFailed ==
    /\ Called("Table.Metadata")
    /\ \/ obs.tableMd.err
       \/ obs.tableMd.FullID #
             TableFullID(bp.projectID, bp.sourceDatasetID, bp.backupTableID)

\* The bucket check of the current request failed.
BucketCheckFailed ==
    /\ Entered("validateStorageBucket")
    /\ obs.bucketClientErr \/ obs.attrsErr

ChecksInOrder ==
    <<"validateDataset", "validateTable", "validateStorageBucket">>

\* The checks entered by the current request, in the order of entry.
ChecksEntered ==
    SelectSeq(entered, LAMBDA f : \E i \in DOMAIN ChecksInOrder :
                                      ChecksInOrder[i] = f)

\* C15: the dataset, table and bucket checks are entered in that order; a
\* request that has ended after a failed check (lookup error, identifier
\* mismatch or bucket error, a table lookup error included) entered no later
\* check and wrote the Error log entry of the failed check.
C15_FirstFailureAborts ==
    /\ ChecksEntered = SubSeq(ChecksInOrder, 1, Len(ChecksEntered))
    /\ (Ended /\ DatasetCheckFailed) =>
          /\ ~Entered("validateTable")
          /\ ~Entered("checkBackupFormat")
          /\ Logged(Error("Dataset does not exist or is not valid"))
    /\ (Ended /\ TableCheckFailed) =>
          /\ ~Entered("validateStorageBucket")
          /\ ~Entered("checkBackupFormat")
          /\ Logged(Error("Table does not exist or is not valid"))
    /\ (Ended /\ BucketCheckFailed) =>
          /\ ~Entered("checkBackupFormat")
          /\ Logged(Error("Problem validating storage bucket"))

\* What C15 says of every case but a table lookup error.
C15_ExceptTableLookupError ==
    /\ ChecksEntered = SubSeq(ChecksInOrder, 1, Len(ChecksEntered))
    /\ (Ended /\ DatasetCheckFailed) =>
          /\ ~Entered("validateTable")
          /\ ~Entered("checkBackupFormat")
          /\ Logged(Error("Dataset does not exist or is not valid"))
    /\ (Ended /\ TableCheckFailed /\ ~obs.tableMd.err) =>
          /\ ~Entered("validateStorageBucket")
          /\ ~Entered("checkBackupFormat")
          /\ Logged(Error("Table does not exist or is not valid"))
    /\ (Ended /\ BucketCheckFailed) =>
          /\ ~Entered("checkBackupFormat")
          /\ Logged(Error("Problem validating storage bucket"))
    /\ (Ended /\ TableCheckFailed /\ obs.tableMd.err) =>
          /\ pc = "panicked"
          /\ ~Entered("validateStorageBucket")
          /\ ~Logged(Error("Table does not exist or is not valid"))

\* The current request has written a log entry of severity Error.
LoggedAnError == \E i \in DOMAIN logs : logs[i].severity = "Error"

\* The current request met a failure at some stage.
RequestFailed ==
    \/ ret.setProjectIDErr
    \/ obs.newClientErr
    \/ obs.decodeErr
    \/ ret.missing # "none"
    \/ DatasetCheckFailed
    \/ TableCheckFailed
    \/ BucketCheckFailed
    \/ Entered("checkBackupFormat") /\ ~ret.formatOk
    \/ Called("Extractor.Run") /\ obs.runErr
    \/ Called("Job.Wait") /\ (obs.waitErr \/ obs.statusErr)
    \/ pc = "panicked"

\* C16: a request that has ended after a failure at any stage (missing
\* project identifier, client creation, body, field, resource check,
\* submission, job) has written at least one log entry of severity Error.
C16_FailureLogged == (Ended /\ RequestFailed) => LoggedAnError

\* The stage of a request that a function of the handler belongs to:
\* 1 validating, 2 checking resources, 3 resolving the format, 4 submitting,
\* 5 waiting.
StageOf(f) ==
    CASE f \in {"setProjectID", "setBigQueryClient", "handleSetup"} -> 1
      [] f \in {"validateParams", "validateDataset", "validateTable",
                "validateStorageBucket"} -> 2
      [] f = "checkBackupFormat" -> 3
      [] f \in {"backupBigQueryTable", "runExtractor"} -> 4
      [] f = "waitForJob" -> 5

\* The latest stage the current request has entered.
StageReached ==
    IF entered = <<>> THEN 0 ELSE StageOf(entered[Len(entered)])

\* Stages in order, none skipped, no function entered twice.
StagesInOrder ==
    /\ entered # <<>> => StageOf(entered[1]) = 1
    /\ \A i \in DOMAIN entered : \A j \in DOMAIN entered :
          /\ (i < j) => entered[i] # entered[j]
          /\ (j = i + 1) =>
                /\ StageOf(entered[i]) <= StageOf(entered[j])
                /\ StageOf(entered[j]) <= StageOf(entered[i]) + 1

AtMostOneJob ==
    Cardinality({i \in DOMAIN calls : calls[i] = "Extractor.Run"}) <= 1

\* C17: a request enters the stages validating, checking resources,
\* resolving the format, submitting and waiting in that order, skips none,
\* enters nothing twice, submits at most one job, and after a failure at a
\* stage enters no later stage.
C17_StagesInOrder ==
    /\ StagesInOrder
    /\ AtMostOneJob
    /\ (ret.setProjectIDErr \/ obs.newClientErr \/ obs.decodeErr
          \/ ret.missing # "none") => StageReached <= 1
    /\ (DatasetCheckFailed \/ TableCheckFailed \/ BucketCheckFailed)
          => StageReached <= 2
    /\ (Entered("checkBackupFormat") /\ ~ret.formatOk) => StageReached <= 3
    /\ (Called("Extractor.Run") /\ obs.runErr) => StageReached <= 4

\* What C17 says of every failure but a failed client creation and a failed
\* submission.
C17_ExceptCreationAndSubmission ==
    /\ StagesInOrder
    /\ AtMostOneJob
    /\ (ret.setProjectIDErr \/ obs.decodeErr \/ ret.missing # "none")
          => StageReached <= 1
    /\ (DatasetCheckFailed \/ TableCheckFailed \/ BucketCheckFailed)
          => StageReached <= 2
    /\ (Entered("checkBackupFormat") /\ ~ret.formatOk) => StageReached <= 3

\* C18: when no client could be created, the call of setBigQueryClient has
\* returned a non-nil error and the handler has stopped there; a call that
\* returned nil left a client.
C18_CreationErrorReturned ==
    /\ (Entered("setBigQueryClient") /\ proc = "serving" /\ bc.nil) =>
          /\ ret.setBigQueryClientErr
          /\ pc = "returned"
          /\ entered = <<"setProjectID", "setBigQueryClient">>
    /\ (/\ Entered("setBigQueryClient")
        /\ pc \notin {"panicked", "exited"}
        /\ ~ret.setBigQueryClientErr) => ~bc.nil

====
